---- MODULE Spec2Model ----
(***************************************************************************)
(* Dependify backend: the pipeline orchestration core.                     *)
(*                                                                         *)
(* SpecVerify models one call of verify_and_fix (backend/modal_verify.py)  *)
(* on a verification job that update (backend/server.py) built by joining  *)
(* the Stage-2 outputs to the Stage-1 records.  The three model calls the  *)
(* loop makes (verify_code, analyze_failure, fix_code) and the progress    *)
(* inserts are external: each outcome is a nondeterministic choice.        *)
(*                                                                         *)
(* Spec models one run of update: the staging directory, run_script with   *)
(* fetch_updates (backend/checker.py), the process_file map, the join, the *)
(* verify_and_fix map (each call ends as a call of SpecVerify can end),    *)
(* the calls to the repository materializer and the finally block.         *)
(* SpecEnum runs fetch_updates alone on trees that exercise its filter,    *)
(* SpecJoin the two joins of update alone, and SpecRuns the overlapping of *)
(* several runs of update on the one staging directory.  SpecArtifact      *)
(* follows one artifact through the three workers with the rows each of    *)
(* them inserts, and SpecReroot runs update from the join on for clones at *)
(* several places.                                                         *)
(*                                                                         *)
(* Python dicts are records whose DOMAIN is the set of keys present;       *)
(* None is the record NoneValue.  Confidences are in hundredths, so the    *)
(* literal 0.85 of the source is 85.                                       *)
(***************************************************************************)
EXTENDS Integers, Sequences, FiniteSets, TLC

VARIABLES
    job_list,       \* server.py:160   the Stage-1 records run_script returned
    write_outputs,  \* server.py:175   the Stage-2 results update kept
    verify_jobs,    \* server.py:196   the verification jobs update built
    job,            \* modal_verify.py:26  the job this verify_and_fix call got
    current_code,   \* modal_verify.py:147
    attempt,        \* modal_verify.py:149 the loop variable
    result,         \* modal_verify.py:165 what the validator pass left in result
    analysis,       \* modal_verify.py:207
    pc,             \* the position of the call in verify_and_fix
    ret,            \* the value verify_and_fix returned
    calls,          \* the model calls made so far, in order, with arguments and outcome
    sink,           \* how the "repo-updates" table answers inserts during this call
    progress        \* the rows inserted into "repo-updates" so far, in order

VARIABLES
    directory,        \* containers.py:73  os.getcwd() + "/repository", the clone
    all_files,        \* checker.py:116  the files os.walk listed, in its order
    file_idx,         \* checker.py:117  how many of them the loop has handled
    analysis_results, \* checker.py:115
    analyzed,         \* the analyze_file_with_llm calls so far: file and outcome
    upc,              \* the position of the run in update
    staging,          \* server.py:150  the directory os.getcwd()/staging
    results2,         \* server.py:180  what each process_file worker returned
    results3,         \* server.py:213  what each verify_and_fix worker returned
    taken,            \* server.py:179, 212  i: how many outputs the loop has taken
    refactored_jobs,  \* server.py:209  the change records
    files_changed,    \* server.py:275
    response_data,    \* server.py:319  what update answers the request with
    mat_calls         \* the calls to the repository materializer so far

VARIABLES
    runs,             \* overlapping requests: the position of each run of update
    shared_dir        \* the directory os.getcwd()/staging that they all use

overlapVars == <<runs, shared_dir>>

fetchVars == <<directory, all_files, file_idx, analysis_results, analyzed>>

runVars == <<staging, results2, results3, taken, refactored_jobs, files_changed,
             response_data, mat_calls>>

updateVars == <<fetchVars, upc, runVars, overlapVars>>

vars == <<job_list, write_outputs, verify_jobs, job, current_code, attempt,
          result, analysis, pc, ret, calls, sink, progress, updateVars>>

(***************************************************************************)
(* Constants of the program and bounds of the model.                       *)
(***************************************************************************)
MAX_RETRIES == 2

\* the literal 0.85 of the acceptance rule, in hundredths
SOFT_PASS == 85

\* the confidence of the substituted result when the validator raised (0.5)
FALLBACK_CONFIDENCE == 50

\* the most files of the analysed repository that Stage 1 reports
MaxFiles == 2

\* where run_script clones the repository: os.getcwd() + "/repository"
Root == "/root/scripts/repository"

FileNames == <<Root \o "/a.py", Root \o "/src/b.py", Root \o "/c.py",
               Root \o "/src/d.py">>

FileTexts == <<"old_a", "old_b", "old_c", "old_d">>

Paths == {FileNames[i] : i \in 1..MaxFiles}

\* the code_content Stage 1 records for each file
FileContent ==
    [p \in Paths |-> FileTexts[CHOOSE i \in 1..MaxFiles : FileNames[i] = p]]

\* the refactored_code process_file returns (non-empty: update drops empty ones)
NewCodes == {"new1"}

\* what fix_code can return: any text, the empty text included
FixOutputs == {"fixed", ""}

NoneValue == [none |-> TRUE]

IsNone(v) == "none" \in DOMAIN v

\* dict.get(key, default)
Get(d, key, default) == IF key \in DOMAIN d THEN d[key] ELSE default

(***************************************************************************)
(* The join of update: one verification job per kept Stage-2 result, with  *)
(* the code_content of the first Stage-1 record of the same path.          *)
(***************************************************************************)
\* FindOriginal that takes the last record whatever its path
FindOriginalLast(jl, file_path) == jl[Len(jl)]

\* FindOriginal that takes the first record whatever its path
FindOriginalFirst(jl, file_path) == jl[1]

\* next((j for j in job_list if j.get("path") == file_path), None)
FindOriginal(jl, file_path) ==
    LET hits == {i \in 1..Len(jl) : jl[i].path = file_path}
    IN  IF hits = {} THEN NoneValue
        ELSE jl[CHOOSE i \in hits : \A k \in hits : i <= k]

VerifyJob(jl, output) ==
    LET original == FindOriginal(jl, output.file_path)
    IN  [file_path       |-> output.file_path,
         original_code   |-> IF IsNone(original) THEN ""
                             ELSE Get(original, "code_content", ""),
         refactored_code |-> output.refactored_code,
         comments        |-> Get(output, "refactored_code_comments", "")]

BuildVerifyJobs(jl, outs) == [i \in 1..Len(outs) |-> VerifyJob(jl, outs[i])]

(***************************************************************************)
(* The inputs of a run: the Stage-1 records (fetch_updates gives every     *)
(* record the path of its file, and os.walk visits a file once, so paths   *)
(* are distinct) and the Stage-2 results update kept (process_file echoes  *)
(* job["path"] as file_path; update keeps a result only when its           *)
(* refactored_code is non-empty).                                          *)
(***************************************************************************)
Range(s) == {s[i] : i \in 1..Len(s)}

InjectiveSeqs(S, n) ==
    {s \in UNION {[1..k -> S] : k \in 1..n} :
        \A i \in 1..Len(s) : \A k \in 1..Len(s) : s[i] = s[k] => i = k}

\* a Stage-1 record as run_script returns it: fetch_updates keeps a record
\* only when add is true, and sets its path
CodeChange(path, code) ==
    [path |-> path, code_content |-> code, reason |-> "outdated", add |-> TRUE]

JobLists ==
    {[i \in 1..Len(ps) |-> CodeChange(ps[i], FileContent[ps[i]])] :
        ps \in InjectiveSeqs(Paths, Cardinality(Paths))}

\* process_file's return value for one Stage-1 record
JobReport(j, code) ==
    [file_path |-> j.path, refactored_code |-> code,
     refactored_code_comments |-> "why"]

WriteOutputs(jl) ==
    {[i \in 1..Len(ix) |-> JobReport(jl[ix[i]], cs[i])] :
        <<ix, cs>> \in {ic \in InjectiveSeqs(1..Len(jl), Len(jl)) \X
                               UNION {[1..k -> NewCodes] : k \in 1..Len(jl)} :
                            Len(ic[1]) = Len(ic[2])}}

(***************************************************************************)
(* verify_and_fix: the outcomes of the three model calls.                  *)
(*   verify_code and analyze_failure return json.loads(text): they raise   *)
(*   (transport error, text that is not JSON), or return a JSON object     *)
(*   (kind "object") or another JSON value: a list, a string, a number     *)
(*   (kind "other").  fix_code returns the text of the reply or raises.    *)
(***************************************************************************)
\* the objects a validator reply can parse to: "passed" and "confidence"
\* each present or absent, the confidence below, at and above the threshold
ValidatorDicts ==
    {[issues |-> <<"broken">>],
     [issues |-> <<"broken">>, passed |-> FALSE, confidence |-> 0],
     [issues |-> <<"broken">>, passed |-> FALSE, confidence |-> SOFT_PASS],
     [issues |-> <<"broken">>, passed |-> FALSE, confidence |-> 90],
     [issues |-> <<>>, passed |-> TRUE, confidence |-> 0],
     [issues |-> <<>>, passed |-> TRUE],
     [issues |-> <<>>, confidence |-> 90]}

Raised == [kind |-> "raise"]

Other == [kind |-> "other"]

Object(d) == [kind |-> "object", value |-> d]

ValidatorOutcomes == {Raised, Other} \cup {Object(d) : d \in ValidatorDicts}

AnalyzerOutcomes ==
    {Raised, Other,
     Object([root_cause |-> "cause", fix_instructions |-> <<"step">>])}

FixOutcomes == {Raised} \cup {[kind |-> "text", value |-> t] : t \in FixOutputs}

\* FallbackResult as a failed pass
FallbackRejects ==
    Object([passed |-> FALSE, issues |-> <<>>, confidence |-> FALLBACK_CONFIDENCE])

\* result = {"passed": True, "issues": [], "confidence": 0.5}
FallbackResult ==
    Object([passed |-> TRUE, issues |-> <<>>, confidence |-> FALLBACK_CONFIDENCE])

\* Accepted without the soft-pass rule
AcceptedPassedOnly(r) == Get(r, "passed", FALSE)

\* Accepted with the threshold itself accepted
AcceptedAtThreshold(r) ==
    Get(r, "passed", FALSE) \/ Get(r, "confidence", 0) >= SOFT_PASS

\* result.get("passed", False) or result.get("confidence", 0) > 0.85
Accepted(r) == Get(r, "passed", FALSE) \/ Get(r, "confidence", 0) > SOFT_PASS

\* RetriesLeft that holds on the last iteration too
RetriesLeftAlways == attempt <= MAX_RETRIES

\* if attempt < MAX_RETRIES
RetriesLeft == attempt < MAX_RETRIES

\* InRange of range(MAX_RETRIES)
InRangeShort(a) == a < MAX_RETRIES

\* InRange of range(MAX_RETRIES + 2)
InRangeLong(a) == a < MAX_RETRIES + 2

\* for attempt in range(MAX_RETRIES + 1): whether a is a value of the range
InRange(a) == a < MAX_RETRIES + 1

\* NewCandidate that drops the repaired text
NewCandidateDropped(out) == current_code

\* current_code = fix_code(current_code, analysis, original_code)
NewCandidate(out) == out.value

\* the arguments of verify_code(original_code, current_code)
VerifyArgs == [original |-> job.original_code, refactored |-> current_code]

\* the table stores every row ("up"), raises on every insert ("down"), or
\* either, insert by insert ("flaky")
SinkAnswers ==
    IF sink = "up" THEN {TRUE} ELSE IF sink = "down" THEN {FALSE} ELSE BOOLEAN

\* one row of the "repo-updates" table
Row(status) == [status |-> status, code |-> current_code]

\* supabase insert inside try/except: the row is stored, or the insert raises
\* and the exception is swallowed
Insert(status) ==
    \E stored \in SinkAnswers :
        progress' = IF stored THEN Append(progress, Row(status)) ELSE progress

VerifiedResult ==
    [file_path |-> job.file_path, refactored_code |-> current_code,
     refactored_code_comments |-> job.comments, verified |-> TRUE,
     attempts |-> attempt + 1]

\* ExhaustedResult with the Stage-2 output instead of the current candidate
ExhaustedResultStage2 ==
    [file_path |-> job.file_path, refactored_code |-> job.refactored_code,
     refactored_code_comments |-> job.comments, verified |-> FALSE,
     attempts |-> MAX_RETRIES + 1]

ExhaustedResult ==
    [file_path |-> job.file_path, refactored_code |-> current_code,
     refactored_code_comments |-> job.comments, verified |-> FALSE,
     attempts |-> MAX_RETRIES + 1]

\* update is not part of a run of SpecVerify
\* no overlapping requests
OverlapIdle ==
    /\ runs = <<>>
    /\ shared_dir = NoneValue

RunIdle ==
    /\ staging = [exists |-> FALSE, made |-> FALSE, files |-> {}, warned |-> FALSE]
    /\ results2 = <<>>
    /\ results3 = <<>>
    /\ taken = 0
    /\ refactored_jobs = <<>>
    /\ files_changed = <<>>
    /\ response_data = NoneValue
    /\ mat_calls = <<>>

UpdateIdle ==
    /\ directory = Root
    /\ all_files = <<>>
    /\ file_idx = 0
    /\ analysis_results = <<>>
    /\ analyzed = <<>>
    /\ upc = "idle"
    /\ RunIdle

inputs == <<job_list, write_outputs, verify_jobs, job, sink, updateVars>>

(***************************************************************************)
(* verify_and_fix: the steps of the loop.                                  *)
(***************************************************************************)
\* lines 150-161: the VERIFYING row, at the top of each iteration
EmitVerifying ==
    /\ pc = "emit_verifying"
    /\ Insert("VERIFYING")
    /\ pc' = "verify"
    /\ UNCHANGED <<inputs, current_code, attempt, result, analysis, ret, calls>>

\* lines 163-169: the validator call; a raise becomes the fallback result
VerifyCode ==
    /\ pc = "verify"
    /\ \E out \in ValidatorOutcomes :
        /\ calls' = Append(calls, [fn |-> "verify_code", args |-> VerifyArgs,
                                   out |-> out])
        /\ result' = IF out.kind = "raise" THEN FallbackResult ELSE out
    /\ pc' = "check"
    /\ UNCHANGED <<inputs, current_code, attempt, analysis, ret, progress>>

\* line 171 on a result that is no dict: result.get raises AttributeError,
\* outside every try block, and the exception leaves verify_and_fix
CheckRaises ==
    /\ pc = "check"
    /\ result.kind = "other"
    /\ pc' = "raised"
    /\ UNCHANGED <<inputs, current_code, attempt, result, analysis, ret, calls,
                   progress>>

\* lines 171-189: accepted; the VERIFIED row and the return
Accept ==
    /\ pc = "check"
    /\ result.kind = "object"
    /\ Accepted(result.value)
    /\ Insert("VERIFIED")
    /\ ret' = VerifiedResult
    /\ pc' = "returned"
    /\ UNCHANGED <<inputs, current_code, attempt, result, analysis, calls>>

\* line 149: the body of the loop ended without return or break: the next
\* value of the range, or the end of the loop
NextIteration ==
    IF InRange(attempt + 1)
    THEN attempt' = attempt + 1 /\ pc' = "emit_verifying"
    ELSE attempt' = attempt /\ pc' = "exhausted"

\* lines 191-203: rejected with retries left; the FIXING row
StartFix ==
    /\ pc = "check"
    /\ result.kind = "object"
    /\ ~Accepted(result.value)
    /\ RetriesLeft
    /\ Insert("FIXING")
    /\ pc' = "analyze"
    /\ UNCHANGED <<inputs, current_code, attempt, result, analysis, ret, calls>>

\* lines 171, 192 and 149: rejected with no retry left; the body ends
SkipFix ==
    /\ pc = "check"
    /\ result.kind = "object"
    /\ ~Accepted(result.value)
    /\ ~RetriesLeft
    /\ NextIteration
    /\ UNCHANGED <<inputs, current_code, result, analysis, ret, calls, progress>>

\* lines 205-208 and 211-213: the analyzer call; analysis.get on the next
\* line raises on a value that is no dict; either exception breaks the loop
AnalyzeFailure ==
    /\ pc = "analyze"
    /\ \E out \in AnalyzerOutcomes :
        /\ calls' = Append(calls,
               [fn |-> "analyze_failure",
                args |-> [code |-> current_code,
                          issues |-> Get(result.value, "issues", <<"Unknown issues">>),
                          original |-> job.original_code],
                out |-> out])
        /\ IF out.kind = "object"
           THEN analysis' = out.value /\ pc' = "fix"
           ELSE analysis' = analysis /\ pc' = "exhausted"
    /\ UNCHANGED <<inputs, current_code, attempt, result, ret, progress>>

\* lines 210-213 and 149: the repair call; its text becomes current_code and
\* the next iteration starts, or the exception breaks the loop
FixCode ==
    /\ pc = "fix"
    /\ \E out \in FixOutcomes :
        /\ calls' = Append(calls,
               [fn |-> "fix_code",
                args |-> [code |-> current_code, analysis |-> analysis,
                          original |-> job.original_code],
                out |-> out])
        /\ IF out.kind = "text"
           THEN /\ current_code' = NewCandidate(out)
                /\ NextIteration
           ELSE /\ UNCHANGED <<current_code, attempt>>
                /\ pc' = "exhausted"
    /\ UNCHANGED <<inputs, result, analysis, ret, progress>>

\* lines 215-223: the return after the loop
ReturnExhausted ==
    /\ pc = "exhausted"
    /\ ret' = ExhaustedResult
    /\ pc' = "returned"
    /\ UNCHANGED <<inputs, current_code, attempt, result, analysis, calls,
                   progress>>

\* the entry of verify_and_fix (lines 58-61 and 147) on a job update built.
\* The table is up or down for the whole call: an insert changes progress
\* alone, and no step of the loop reads progress.
InitVerify ==
    /\ job_list \in JobLists
    /\ write_outputs \in WriteOutputs(job_list)
    /\ verify_jobs = BuildVerifyJobs(job_list, write_outputs)
    /\ job \in Range(verify_jobs)
    /\ current_code = job.refactored_code
    /\ attempt = 0
    /\ result = NoneValue
    /\ analysis = NoneValue
    /\ pc = "emit_verifying"
    /\ ret = NoneValue
    /\ calls = <<>>
    /\ sink \in {"up", "down"}
    /\ progress = <<>>
    /\ UpdateIdle
    /\ OverlapIdle

NextVerify ==
    \/ EmitVerifying
    \/ VerifyCode
    \/ CheckRaises
    \/ Accept
    \/ StartFix
    \/ SkipFix
    \/ AnalyzeFailure
    \/ FixCode
    \/ ReturnExhausted

SpecVerify == InitVerify /\ [][NextVerify]_vars

(***************************************************************************)
(* Vocabulary of the properties: the calls of one kind in the trace, and   *)
(* the acceptance rule as the specification words it.                      *)
(***************************************************************************)
Idx(fn) == {i \in 1..Len(calls) : calls[i].fn = fn}

NumCalls(fn) == Cardinality(Idx(fn))

Ended == pc \in {"returned", "raised"}

\* passed == true OR confidence > 0.85, on the fields the reply has
RuleAccepts(d) ==
    \/ "passed" \in DOMAIN d /\ d.passed = TRUE
    \/ "confidence" \in DOMAIN d /\ d.confidence > 85

Rejecting(call) ==
    /\ call.fn = "verify_code"
    /\ call.out.kind = "object"
    /\ ~RuleAccepts(call.out.value)

\* the validator returned passed=false with confidence 0.0
IsZeroReject(call) ==
    /\ call.out.kind = "object"
    /\ DOMAIN call.out.value = {"issues", "passed", "confidence"}
    /\ call.out.value.passed = FALSE
    /\ call.out.value.confidence = 0

AllCallsAsInC1 ==
    /\ \A i \in Idx("verify_code") : IsZeroReject(calls[i])
    /\ \A i \in Idx("analyze_failure") : calls[i].out.kind = "object"
    /\ \A i \in Idx("fix_code") : calls[i].out.kind = "text"

\* C1: a run in which every validator call returned passed=false with
\* confidence 0.0, and every analyzer and repair call succeeded, ends by
\* returning verified=false after exactly MAX_RETRIES + 1 validator calls.
C1_AlwaysRejectedExhausts ==
    (Ended /\ AllCallsAsInC1) =>
        /\ pc = "returned"
        /\ NumCalls("verify_code") = MAX_RETRIES + 1
        /\ ret.verified = FALSE

C1_Witness ==
    /\ pc = "returned"
    /\ AllCallsAsInC1
    /\ NumCalls("verify_code") = 3
    /\ NumCalls("fix_code") = 2

\* the validator returned passed=false with confidence 0.9
IsSoftPass(call) ==
    /\ call.fn = "verify_code"
    /\ call.out.kind = "object"
    /\ DOMAIN call.out.value = {"issues", "passed", "confidence"}
    /\ call.out.value.passed = FALSE
    /\ call.out.value.confidence = 90

\* C2: when the first validator call returns passed=false with confidence
\* 0.9, no other call is ever made, the only step left is the accepting
\* return, and the result is verified=true, attempts=1 with the Stage-2
\* output as its code.
C2_SoftPassFirstAttempt ==
    (Len(calls) >= 1 /\ IsSoftPass(calls[1])) =>
        /\ Len(calls) = 1
        /\ NumCalls("analyze_failure") = 0
        /\ NumCalls("fix_code") = 0
        /\ pc \in {"check", "returned"}
        /\ pc = "check" => ENABLED Accept /\ ~ENABLED StartFix /\ ~ENABLED SkipFix
        /\ pc = "returned" =>
              /\ ret.verified = TRUE
              /\ ret.attempts = 1
              /\ ret.refactored_code = job.refactored_code

C2_Witness ==
    /\ Len(calls) = 1
    /\ IsSoftPass(calls[1])
    /\ pc = "returned"
    /\ ret.verified

\* C3: a validating pass ends in VERIFIED (the accepting return is the step
\* taken from the check of the result) exactly when the result has
\* passed=true or a confidence above 0.85.
C3_AcceptanceRule ==
    [][pc = "check" =>
         ((pc' = "returned" /\ ret'.verified = TRUE)
             <=> (result.kind = "object" /\ RuleAccepts(result.value)))]_vars

\* passed=false with confidence exactly 0.85 was rejected and sent to the
\* analyzer, and so was a reply with neither field
C3_Witness ==
    /\ Len(calls) >= 5
    /\ calls[1].out.kind = "object"
    /\ DOMAIN calls[1].out.value = {"issues", "passed", "confidence"}
    /\ calls[1].out.value.passed = FALSE
    /\ calls[1].out.value.confidence = 85
    /\ calls[2].fn = "analyze_failure"
    /\ calls[4].out.kind = "object"
    /\ DOMAIN calls[4].out.value = {"issues"}
    /\ calls[5].fn = "analyze_failure"

\* the validating passes entered so far: the validator calls made, and the
\* pass under way whose call is still to come
ValidatingEntries ==
    NumCalls("verify_code") + (IF pc \in {"emit_verifying", "verify"} THEN 1 ELSE 0)

\* C4: whatever the validator, the analyzer and the repair pass answer, a run
\* enters VALIDATING at most MAX_RETRIES + 1 times and reports at most
\* MAX_RETRIES + 1 attempts.
C4_AttemptsBounded ==
    /\ ValidatingEntries <= MAX_RETRIES + 1
    /\ pc = "returned" => ret.attempts <= MAX_RETRIES + 1

C4_Witness ==
    /\ pc = "returned"
    /\ NumCalls("verify_code") = MAX_RETRIES + 1
    /\ ret.attempts = MAX_RETRIES + 1
    /\ ret.verified

\* C5: a run of verify_and_fix ends with a result, VERIFIED or EXHAUSTED: it
\* never ends by an exception, and once ended it has returned a result whose
\* verified flag is true or false.
C5_EndsWithAResult ==
    /\ pc # "raised"
    /\ Ended => (~IsNone(ret) /\ ret.verified \in BOOLEAN)

\* C6: a validator call that raised is the last call of the run: the pass is
\* judged on passed=true with confidence 0.5, the only step left is the
\* accepting return, and the result is verified=true with the candidate that
\* call was given.
C6_ValidatorRaiseAccepted ==
    \A i \in Idx("verify_code") :
        calls[i].out.kind = "raise" =>
            /\ i = Len(calls)
            /\ result.kind = "object"
            /\ result.value.passed = TRUE
            /\ result.value.confidence = 50
            /\ pc \in {"check", "returned"}
            /\ pc = "check" =>
                  ENABLED Accept /\ ~ENABLED StartFix /\ ~ENABLED SkipFix
                      /\ ~ENABLED CheckRaises
            /\ pc = "returned" =>
                  /\ ret.verified = TRUE
                  /\ ret.refactored_code = calls[i].args.refactored

\* the validator raised on a retry, on a repaired candidate
C6_Witness ==
    /\ Len(calls) = 4
    /\ calls[4].fn = "verify_code"
    /\ calls[4].out.kind = "raise"
    /\ calls[4].args.refactored # job.refactored_code
    /\ pc = "returned"

\* the analyzer or the repair call raised (for the analyzer: the call, or the
\* read of its reply on the next line)
FailedFix(call) ==
    /\ call.fn \in {"analyze_failure", "fix_code"}
    /\ call.out.kind \in {"raise", "other"}

\* the validator call of the pass that call i belongs to
LastValidation(i) ==
    CHOOSE k \in Idx("verify_code") :
        k < i /\ \A m \in Idx("verify_code") : m < i => m <= k

\* C7: an analyzer or repair call that raised is the last call of the run;
\* the only step left is the return after the loop, and the result is
\* verified=false with the candidate that was under test before that call.
C7_FixFailureStopsLoop ==
    \A i \in 1..Len(calls) :
        FailedFix(calls[i]) =>
            /\ i = Len(calls)
            /\ pc \in {"exhausted", "returned"}
            /\ pc = "exhausted" => ENABLED ReturnExhausted
            /\ pc = "returned" =>
                  /\ ret.verified = FALSE
                  /\ ret.refactored_code = calls[i].args.code
                  /\ ret.refactored_code = calls[LastValidation(i)].args.refactored

\* the repair call raised in the second round, on a repaired candidate
C7_Witness ==
    /\ Len(calls) = 6
    /\ calls[6].fn = "fix_code"
    /\ calls[6].out.kind = "raise"
    /\ calls[6].args.code # job.refactored_code
    /\ pc = "returned"

\* C8: every analyzer call comes directly after a validator call that
\* rejected, fewer than MAX_RETRIES + 1 validator calls have been made by
\* then, and a run makes at most MAX_RETRIES analyzer calls.
C8_AnalyzerOnlyOnRejection ==
    /\ \A i \in Idx("analyze_failure") :
          /\ i > 1
          /\ Rejecting(calls[i - 1])
          /\ Cardinality({k \in Idx("verify_code") : k < i}) < MAX_RETRIES + 1
    /\ NumCalls("analyze_failure") <= MAX_RETRIES

C8_Witness ==
    /\ NumCalls("analyze_failure") = MAX_RETRIES
    /\ NumCalls("verify_code") = MAX_RETRIES + 1
    /\ Rejecting(calls[Len(calls)])
    /\ pc = "returned"

\* C9: a successful analyzer call is followed by a repair call, a repair call
\* is preceded by a successful analyzer call, and a successful repair call is
\* followed by the validator call on the text it returned.
C9_AnalyzeRepairValidate ==
    /\ \A i \in Idx("analyze_failure") :
          calls[i].out.kind = "object" =>
              IF i = Len(calls) THEN pc = "fix" ELSE calls[i + 1].fn = "fix_code"
    /\ \A i \in Idx("fix_code") :
          /\ i > 1
          /\ calls[i - 1].fn = "analyze_failure"
          /\ calls[i - 1].out.kind = "object"
    /\ \A i \in Idx("fix_code") :
          calls[i].out.kind = "text" =>
              IF i = Len(calls)
              THEN pc \in {"emit_verifying", "verify"}
                      /\ current_code = calls[i].out.value
              ELSE calls[i + 1].fn = "verify_code"
                      /\ calls[i + 1].args.refactored = calls[i].out.value

\* two repairs with different outputs, each validated next
C9_Witness ==
    /\ Len(calls) = 7
    /\ calls[3].fn = "fix_code"
    /\ calls[6].fn = "fix_code"
    /\ calls[3].out.value # calls[6].out.value
    /\ calls[7].fn = "verify_code"

\* C10: the original argument of every validator call is the code_content of
\* the one Stage-1 record whose path is the job's file_path; it is neither the
\* Stage-2 output nor a repaired candidate.
C10_ValidatorComparesOriginal ==
    \A i \in Idx("verify_code") :
        /\ \E k \in 1..Len(job_list) : job_list[k].path = job.file_path
        /\ \A k \in 1..Len(job_list) :
              job_list[k].path = job.file_path =>
                  calls[i].args.original = job_list[k].code_content
        /\ calls[i].args.original # job.refactored_code
        /\ calls[i].args.original \notin FixOutputs

\* three validator calls for the second of two Stage-1 records, the last two
\* on repaired candidates
C10_Witness ==
    /\ NumCalls("verify_code") = 3
    /\ Len(job_list) = 2
    /\ job.file_path = job_list[2].path
    /\ calls[4].args.refactored # job.refactored_code
    /\ calls[7].args.refactored # job.refactored_code

(***************************************************************************)
(* Stage 1: fetch_updates (backend/checker.py), which run_script calls on  *)
(* the clone of the repository.  Paths are strings, and the three tests of *)
(* the filter are computed on them as Python computes them.                *)
(***************************************************************************)
\* the most files of a tree the enumerator is checked on
MaxTree == 3

\* str.startswith
StartsWith(s, t) == Len(s) >= Len(t) /\ SubSeq(s, 1, Len(t)) = t

\* str.endswith
EndsWith(s, t) == Len(s) >= Len(t) /\ SubSeq(s, Len(s) - Len(t) + 1, Len(s)) = t

\* t in s
Contains(s, t) ==
    \E i \in 1..(Len(s) - Len(t) + 1) : SubSeq(s, i, i + Len(t) - 1) = t

\* os.path.basename: what follows the last "/"
Basename(p) ==
    LET slashes == {i \in 1..Len(p) : SubSeq(p, i, i) = "/"}
    IN  IF slashes = {} THEN p
        ELSE SubSeq(p, (CHOOSE i \in slashes : \A k \in slashes : k <= i) + 1, Len(p))

Denylist == {".css", ".json", ".md", ".svg", ".ico", ".mjs", ".gitignore", ".env"}

\* the condition of the continue at checker.py:119-124
Skipped(filepath) ==
    \/ StartsWith(Basename(filepath), ".")
    \/ \E ext \in Denylist : EndsWith(filepath, ext)
    \/ Contains(filepath, ".git/")

\* files of a working copy that exercise each test of the filter
EnumNames == {Root \o "/a.txt", Root \o "/b.py", Root \o "/.eslintrc.js",
              Root \o "/README.md", Root \o "/.git/config",
              Root \o "/lib.git/c.py"}

\* os.walk lists every file once, in an order nothing fixes
Trees(names, n) == {<<>>} \cup InjectiveSeqs(names, n)

\* the text of a file of the working copy
ContentOf(filepath) ==
    IF filepath \in Paths THEN FileContent[filepath] ELSE "text"

\* the path the model reply names: fetch_updates overwrites it
LLMPath == "reply/path.py"

Returned(v) == [kind |-> "return", value |-> v]

\* what the outside gives one call of analyze_file_with_llm: open() raises,
\* the model call or the parsing of its reply fails, or the reply parses
\* into a CodeChange
AnalyzeReplies(filepath) ==
    {[kind |-> "unreadable"], [kind |-> "invalid"]} \cup
    {[kind |-> "change",
      value |-> [CodeChange(LLMPath, ContentOf(filepath)) EXCEPT !.add = a]] :
        a \in BOOLEAN}

\* analyze_file_with_llm: open() is outside the try and raises to the caller;
\* every failure inside the try returns None. The READING row is inserted in
\* an inner try whose handler inserts it again; a failure of that second
\* insert reaches the outer handler, which returns None. first and second
\* say whether the two inserts store the row.
analyze_file_with_llm(reply, first, second) ==
    IF reply.kind = "unreadable" THEN [out |-> Raised, rows |-> <<>>]
    ELSE IF reply.kind = "invalid"
    THEN [out |-> Returned(NoneValue), rows |-> <<>>]
    ELSE IF first \/ second
    THEN [out |-> Returned(reply.value),
          rows |-> <<[status |-> "READING",
                      code |-> reply.value.code_content]>>]
    ELSE [out |-> Returned(NoneValue), rows |-> <<>>]

\* the values a call of analyze_file_with_llm can give, whatever the table
\* answers
AnalyzeOutcomes(filepath) ==
    {analyze_file_with_llm(reply, first, second).out :
        reply \in AnalyzeReplies(filepath), first \in BOOLEAN,
        second \in BOOLEAN}

\* response is None or response.add == False
Dropped(response) == IsNone(response) \/ response.add = FALSE

\* response.path = filepath
WithPath(response, filepath) == [response EXCEPT !.path = filepath]

verifyVars == <<job, current_code, attempt, result, analysis, pc, ret, calls,
                sink, progress>>

FetchSkip ==
    /\ upc = "fetch"
    /\ file_idx < Len(all_files)
    /\ Skipped(all_files[file_idx + 1])
    /\ file_idx' = file_idx + 1
    /\ UNCHANGED <<verifyVars, overlapVars, job_list, write_outputs, verify_jobs, directory,
                   all_files,
                   analysis_results, analyzed, upc, runVars>>

FetchAnalyze ==
    /\ upc = "fetch"
    /\ file_idx < Len(all_files)
    /\ LET filepath == all_files[file_idx + 1]
       IN  /\ ~Skipped(filepath)
           /\ \E out \in AnalyzeOutcomes(filepath) :
                /\ analyzed' = Append(analyzed, [path |-> filepath, out |-> out])
                /\ IF out.kind = "raise"
                   THEN /\ upc' = "fetch_raised"
                        /\ UNCHANGED <<file_idx, analysis_results>>
                   ELSE /\ upc' = upc
                        /\ file_idx' = file_idx + 1
                        /\ analysis_results' =
                              IF Dropped(out.value) THEN analysis_results
                              ELSE Append(analysis_results,
                                          WithPath(out.value, filepath))
    /\ UNCHANGED <<verifyVars, overlapVars, job_list, write_outputs, verify_jobs, directory,
                   all_files,
                   runVars>>

\* fetch_updates returns, and run_script dumps each CodeChange to a dict
FetchReturn ==
    /\ upc = "fetch"
    /\ file_idx = Len(all_files)
    /\ job_list' = analysis_results
    /\ upc' = "job_list"
    /\ UNCHANGED <<verifyVars, overlapVars, write_outputs, verify_jobs, fetchVars, runVars>>

\* verify_and_fix is not part of a run of the enumerator
VerifyIdle ==
    /\ job = NoneValue
    /\ current_code = ""
    /\ attempt = 0
    /\ result = NoneValue
    /\ analysis = NoneValue
    /\ pc = "idle"
    /\ ret = NoneValue
    /\ calls = <<>>
    /\ sink = "up"
    /\ progress = <<>>

InitEnum ==
    /\ VerifyIdle
    /\ job_list = <<>>
    /\ write_outputs = <<>>
    /\ verify_jobs = <<>>
    /\ directory = Root
    /\ all_files \in Trees(EnumNames, MaxTree)
    /\ file_idx = 0
    /\ analysis_results = <<>>
    /\ analyzed = <<>>
    /\ upc = "fetch"
    /\ RunIdle
    /\ OverlapIdle

NextEnum ==
    \/ FetchSkip
    \/ FetchAnalyze
    \/ FetchReturn

SpecEnum == InitEnum /\ [][NextEnum]_vars

(***************************************************************************)
(* Properties of the enumerator.                                           *)
(***************************************************************************)
\* the three exclusion rules, as the specification words them
BeginsWithDot(p) == StartsWith(Basename(p), ".")

HasDeniedExtension(p) == \E ext \in Denylist : EndsWith(p, ext)

BeneathGitDirectory(p) == Contains(p, "/.git/")

ExcludedByRule(p) ==
    BeginsWithDot(p) \/ HasDeniedExtension(p) \/ BeneathGitDirectory(p)

TimesSubmitted(p) ==
    Cardinality({i \in 1..Len(analyzed) : analyzed[i].path = p})

\* C17: when the root holds exactly a.txt and b.py, a.txt is excluded: only
\* b.py is submitted to Stage 1 and only b.py is in what Stage 1 returns.
C17_TxtFileExcluded ==
    Range(all_files) = {Root \o "/a.txt", Root \o "/b.py"} =>
        /\ \A i \in 1..Len(analyzed) : analyzed[i].path = Root \o "/b.py"
        /\ \A i \in 1..Len(analysis_results) :
              analysis_results[i].path = Root \o "/b.py"
        /\ \A i \in 1..Len(job_list) : job_list[i].path = Root \o "/b.py"

\* C18: fetch_updates never submits or returns a file whose name begins with
\* ".", whose path ends in a denylisted extension, or that lies beneath a
\* .git directory; and when it returns, every other file of the tree has been
\* submitted exactly once.
C18_EnumeratorFilter ==
    /\ \A i \in 1..Len(analyzed) : ~ExcludedByRule(analyzed[i].path)
    /\ \A i \in 1..Len(analysis_results) :
          ~ExcludedByRule(analysis_results[i].path)
    /\ upc = "job_list" =>
          \A i \in 1..Len(all_files) :
              ~ExcludedByRule(all_files[i]) => TimesSubmitted(all_files[i]) = 1

(***************************************************************************)
(* update (backend/server.py): one run of the pipeline.  The workers of a  *)
(* map run concurrently and finish in any order; the async for of update   *)
(* takes their outputs in the order of the inputs, and an exception of a   *)
(* worker is raised in the loop when its turn comes.                       *)
(***************************************************************************)
\* os.path.join(os.getcwd(), "staging")
StagingDir == "/srv/app/staging"

\* the literal 24 of file_path[24:]
PREFIX_LEN == 24

Pending == [kind |-> "pending"]

\* what the outside gives one call of process_file: the model call or the
\* parsing of its reply fails, or the reply parses into a JobReport
ProcessReplies ==
    {[kind |-> "invalid"]} \cup
    {[kind |-> "report", code |-> code] : code \in NewCodes \cup {""}}

\* process_file: everything after job["path"] is inside one try whose handlers
\* return None; otherwise the JobReport of the reply with the path of the
\* job. The WRITING row is inserted as the READING row is: a second insert
\* in the handler of the first, and None when both fail.
process_file(j, reply, first, second) ==
    IF reply.kind = "invalid"
    THEN [out |-> Returned(NoneValue), rows |-> <<>>]
    ELSE IF first \/ second
    THEN [out |-> Returned(JobReport(j, reply.code)),
          rows |-> <<[status |-> "WRITING", code |-> reply.code]>>]
    ELSE [out |-> Returned(NoneValue), rows |-> <<>>]

\* the values a call of process_file can give, whatever the table answers
ProcessOutcomes(j) ==
    {process_file(j, reply, first, second).out :
        reply \in ProcessReplies, first \in BOOLEAN, second \in BOOLEAN}

VResult(vjob, code, verified, attempts) ==
    [file_path |-> vjob.file_path, refactored_code |-> code,
     refactored_code_comments |-> vjob.comments, verified |-> verified,
     attempts |-> attempts]

\* verify_and_fix: raises (a validator reply that is not an object), returns
\* the candidate it accepted, or returns the last candidate as exhausted.
\* These are the ends of a call in SpecVerify.
VerifyOutcomes(vjob) ==
    {Raised, Returned(VResult(vjob, vjob.refactored_code, TRUE, 1))}
    \cup {Returned(VResult(vjob, code, TRUE, n)) :
             code \in FixOutputs, n \in 2..(MAX_RETRIES + 1)}
    \cup {Returned(VResult(vjob, code, FALSE, MAX_RETRIES + 1)) :
             code \in {vjob.refactored_code} \cup FixOutputs}

\* Kept without the test of refactored_code
KeptNonNull(output) == ~IsNone(output)

\* a filter that also wants verified=true of a Stage-3 result
KeptVerified(output) ==
    /\ ~IsNone(output)
    /\ Get(output, "refactored_code", "") # ""
    /\ Get(output, "verified", TRUE)

\* output and output.get("refactored_code")
Kept(output) == ~IsNone(output) /\ Get(output, "refactored_code", "") # ""

\* the path of the file in the staging directory
NewPath(file_path) ==
    IF file_path # "" /\ Len(file_path) > PREFIX_LEN
    THEN StagingDir \o SubSeq(file_path, PREFIX_LEN + 1, Len(file_path))
    ELSE StagingDir \o "/" \o Basename(file_path)

ChangeRecord(jl, res) ==
    LET file_path == Get(res, "file_path", "")
        original_job == FindOriginal(jl, file_path)
    IN  [path |-> NewPath(file_path),
         new_content |-> res.refactored_code,
         old_content |-> IF IsNone(original_job) THEN ""
                         ELSE Get(original_job, "code_content", ""),
         comments |-> Get(res, "refactored_code_comments", "")]

HTTPException(status_code, detail) ==
    [status_code |-> status_code, detail |-> detail]

\* leaving the try block with a return value or an exception: the finally
\* block runs before the answer goes out
Leave(answer) ==
    /\ response_data' = answer
    /\ upc' = "finally"

NothingOutdated ==
    [status |-> "success", message |-> "No outdated files found in repository",
     files_analyzed |-> 0, files_updated |-> 0]

\* shutil.rmtree: removes the directory or raises
RmtreeOutcomes == {"removed", "raise"}

\* server.py:150-155
CreateStaging ==
    /\ upc = "start"
    /\ IF staging.exists
       THEN \E out \in RmtreeOutcomes :
                IF out = "raise"
                THEN /\ Leave(HTTPException(500, "An unexpected error occurred"))
                     /\ UNCHANGED staging
                ELSE /\ staging' = [exists |-> TRUE, made |-> TRUE, files |-> {}, warned |-> FALSE]
                     /\ upc' = "run_script"
                     /\ UNCHANGED response_data
       ELSE /\ staging' = [exists |-> TRUE, made |-> TRUE, files |-> {}, warned |-> FALSE]
            /\ upc' = "run_script"
            /\ UNCHANGED response_data
    /\ UNCHANGED <<verifyVars, overlapVars, job_list, write_outputs, verify_jobs, fetchVars,
                   results2, results3, taken, refactored_jobs, files_changed,
                   mat_calls>>

\* run_script up to the call of fetch_updates: a git clone that fails raises
RunScript ==
    /\ upc = "run_script"
    /\ \E cloned \in BOOLEAN :
          IF cloned
          THEN upc' = "fetch" /\ UNCHANGED response_data
          ELSE Leave(HTTPException(500, "Git operation failed"))
    /\ UNCHANGED <<verifyVars, overlapVars, job_list, write_outputs, verify_jobs, fetchVars,
                   staging, results2, results3, taken, refactored_jobs,
                   files_changed, mat_calls>>

\* the exception of analyze_file_with_llm leaves fetch_updates and run_script
FetchRaised ==
    /\ upc = "fetch_raised"
    /\ Leave(HTTPException(500, "An unexpected error occurred"))
    /\ UNCHANGED <<verifyVars, overlapVars, job_list, write_outputs, verify_jobs, fetchVars,
                   staging, results2, results3, taken, refactored_jobs,
                   files_changed, mat_calls>>

\* an "async for" over a map that ended before the map gave every output
MapExhaustedEarly(n, jobs) == TRUE

\* async for output in f.map(jobs): the loop ends when the map has given one
\* output for every input
MapExhausted(n, jobs) == n = Len(jobs)

\* a join that stores the refactored code in the Stage-1 record it matched
JobsAfterJoinOverwritten(jl, outputs) ==
    [k \in 1..Len(jl) |->
        IF \E o \in Range(outputs) : o.file_path = jl[k].path
        THEN [jl[k] EXCEPT !.code_content =
                 (CHOOSE o \in Range(outputs) :
                     o.file_path = jl[k].path).refactored_code]
        ELSE jl[k]]

\* job_list after the join: the join reads the records with next() and
\* .get(), and assigns to none of them
JobsAfterJoin(jl, outputs) == jl

\* server.py:162-180
StartStage2 ==
    /\ upc = "job_list"
    /\ IF job_list = <<>>
       THEN /\ Leave(NothingOutdated)
            /\ UNCHANGED <<results2, taken, write_outputs>>
       ELSE /\ write_outputs' = <<>>
            /\ results2' = [k \in 1..Len(job_list) |-> Pending]
            /\ taken' = 0
            /\ upc' = "stage2"
            /\ UNCHANGED response_data
    /\ UNCHANGED <<verifyVars, overlapVars, job_list, verify_jobs, fetchVars, staging,
                   results3, refactored_jobs, files_changed, mat_calls>>

\* one process_file worker finishes
ProcessFile ==
    /\ upc = "stage2"
    /\ \E k \in 1..Len(job_list) :
          /\ results2[k] = Pending
          /\ \E out \in ProcessOutcomes(job_list[k]) :
                results2' = [results2 EXCEPT ![k] = out]
    /\ UNCHANGED <<verifyVars, overlapVars, job_list, write_outputs, verify_jobs, fetchVars,
                   upc, staging, results3, taken, refactored_jobs,
                   files_changed, response_data, mat_calls>>

\* server.py:180-186: the loop takes the next output
Stage2Output ==
    /\ upc = "stage2"
    /\ taken < Len(job_list)
    /\ results2[taken + 1] # Pending
    /\ LET output == results2[taken + 1].value
       IN  write_outputs' = IF Kept(output) THEN Append(write_outputs, output)
                            ELSE write_outputs
    /\ taken' = taken + 1
    /\ UNCHANGED <<verifyVars, overlapVars, job_list, verify_jobs, fetchVars, upc, staging,
                   results2, results3, refactored_jobs, files_changed,
                   response_data, mat_calls>>

\* update without the check of line 188
NoWriteOutputsIgnored == FALSE

\* if not write_outputs
NoWriteOutputs == write_outputs = <<>>

\* server.py:188-213: the join, and the start of Stage 3
StartStage3 ==
    /\ upc = "stage2"
    /\ MapExhausted(taken, job_list)
    /\ IF NoWriteOutputs
       THEN /\ Leave(HTTPException(400, "Failed to refactor any files"))
            /\ UNCHANGED <<job_list, verify_jobs, results3, taken,
                           refactored_jobs>>
       ELSE /\ verify_jobs' = BuildVerifyJobs(job_list, write_outputs)
            /\ job_list' = JobsAfterJoin(job_list, write_outputs)
            /\ refactored_jobs' = <<>>
            /\ results3' = [k \in 1..Len(write_outputs) |-> Pending]
            /\ taken' = 0
            /\ upc' = "stage3"
            /\ UNCHANGED response_data
    /\ UNCHANGED <<verifyVars, overlapVars, write_outputs, fetchVars, staging,
                   results2, files_changed, mat_calls>>

\* one verify_and_fix worker finishes
VerifyAndFix ==
    /\ upc = "stage3"
    /\ \E k \in 1..Len(verify_jobs) :
          /\ results3[k] = Pending
          /\ \E out \in VerifyOutcomes(verify_jobs[k]) :
                results3' = [results3 EXCEPT ![k] = out]
    /\ UNCHANGED <<verifyVars, overlapVars, job_list, write_outputs, verify_jobs, fetchVars,
                   upc, staging, results2, taken, refactored_jobs,
                   files_changed, response_data, mat_calls>>

\* server.py:213-234: the loop takes the next output, or the exception of the
\* worker whose turn it is
Stage3Output ==
    /\ upc = "stage3"
    /\ taken < Len(verify_jobs)
    /\ results3[taken + 1] # Pending
    /\ IF results3[taken + 1].kind = "raise"
       THEN /\ Leave(HTTPException(500, "An unexpected error occurred"))
            /\ UNCHANGED <<taken, refactored_jobs>>
       ELSE /\ LET res == results3[taken + 1].value
               IN  refactored_jobs' =
                      IF Kept(res)
                      THEN Append(refactored_jobs, ChangeRecord(job_list, res))
                      ELSE refactored_jobs
            /\ taken' = taken + 1
            /\ UNCHANGED <<upc, response_data>>
    /\ UNCHANGED <<verifyVars, overlapVars, job_list, write_outputs, verify_jobs, fetchVars,
                   staging, results2, results3, files_changed, mat_calls>>

\* server.py:236-250
CreateFork ==
    /\ upc = "stage3"
    /\ MapExhausted(taken, verify_jobs)
    /\ IF refactored_jobs = <<>>
       THEN /\ Leave(HTTPException(400, "Failed to verify any files"))
            /\ UNCHANGED mat_calls
       ELSE /\ mat_calls' = Append(mat_calls, "create_fork")
            /\ \E fork_result \in {"none", "raise", "fork"} :
                  CASE fork_result = "none" ->
                          Leave(HTTPException(400, "Failed to access repository"))
                    [] fork_result = "raise" ->
                          Leave(HTTPException(500, "An unexpected error occurred"))
                    [] OTHER -> upc' = "clone" /\ UNCHANGED response_data
    /\ UNCHANGED <<verifyVars, overlapVars, job_list, write_outputs, verify_jobs, fetchVars,
                   staging, results2, results3, taken, refactored_jobs,
                   files_changed>>

\* the part of a path below the root of a working copy
RelativeTo(root, filepath) == SubSeq(filepath, Len(root) + 1, Len(filepath))

\* the files a clone of the repository puts into the staging directory
CloneFiles ==
    {StagingDir \o RelativeTo(directory, all_files[k]) : k \in 1..Len(all_files)}

\* server.py:263-270: git clone <repo_url> <staging_dir>
CloneFork ==
    /\ upc = "clone"
    /\ mat_calls' = Append(mat_calls, "clone")
    /\ \E returncode \in {0, 128} :
          IF returncode # 0
          THEN /\ Leave(HTTPException(400, "Failed to clone repository"))
               /\ UNCHANGED staging
          ELSE /\ staging' = [staging EXCEPT !.files = CloneFiles]
               /\ upc' = "apply"
               /\ UNCHANGED response_data
    /\ UNCHANGED <<verifyVars, overlapVars, job_list, write_outputs, verify_jobs, fetchVars,
                   results2, results3, taken, refactored_jobs, files_changed>>

\* the paths of the records whose file exists and whose write succeeded
Changed(jobs, written) ==
    SelectSeq([k \in 1..Len(jobs) |->
                  IF jobs[k].path \in staging.files /\ k \in written
                  THEN jobs[k].path ELSE ""],
              LAMBDA path : path # "")

\* server.py:274-297: load_repository, then the loop that writes the files
ApplyChanges ==
    /\ upc = "apply"
    /\ mat_calls' = Append(mat_calls, "load_repository")
    /\ \E loaded \in BOOLEAN, written \in SUBSET (1..Len(refactored_jobs)) :
          IF ~loaded
          THEN /\ Leave(HTTPException(500, "An unexpected error occurred"))
               /\ UNCHANGED files_changed
          ELSE /\ files_changed' = Changed(refactored_jobs, written)
               /\ IF files_changed' = <<>>
                  THEN Leave(HTTPException(400, "No files were successfully updated"))
                  ELSE upc' = "push" /\ UNCHANGED response_data
    /\ UNCHANGED <<verifyVars, overlapVars, job_list, write_outputs, verify_jobs, fetchVars,
                   staging, results2, results3, taken, refactored_jobs>>

\* server.py:301
CreateAndPushBranch ==
    /\ upc = "push"
    /\ mat_calls' = Append(mat_calls, "create_and_push_branch")
    /\ \E pushed \in BOOLEAN :
          IF pushed THEN upc' = "pull_request" /\ UNCHANGED response_data
          ELSE Leave(HTTPException(500, "An unexpected error occurred"))
    /\ UNCHANGED <<verifyVars, overlapVars, job_list, write_outputs, verify_jobs, fetchVars,
                   staging, results2, results3, taken, refactored_jobs,
                   files_changed>>

FirstFive(jobs) == SubSeq(jobs, 1, IF Len(jobs) < 5 THEN Len(jobs) ELSE 5)

Updated ==
    [status |-> "success",
     message |-> "Repository updated and pull request created successfully",
     files_analyzed |-> Len(job_list), files_updated |-> Len(files_changed),
     output |-> FirstFive(refactored_jobs)]

\* server.py:309-341
CreatePullRequest ==
    /\ upc = "pull_request"
    /\ mat_calls' = Append(mat_calls, "create_pull_request")
    /\ \E created \in BOOLEAN :
          IF created THEN Leave(Updated)
          ELSE Leave(HTTPException(500, "An unexpected error occurred"))
    /\ UNCHANGED <<verifyVars, overlapVars, job_list, write_outputs, verify_jobs, fetchVars,
                   staging, results2, results3, taken, refactored_jobs,
                   files_changed>>

\* update without the cleanup of the finally block
CleanupNever == FALSE

\* if staging_dir and os.path.exists(staging_dir)
CleanupDue == staging.exists

\* server.py:355-362: the finally block; a failure of rmtree is printed
Cleanup ==
    /\ upc = "finally"
    /\ IF CleanupDue
       THEN \E out \in RmtreeOutcomes :
               staging' = IF out = "removed"
                          THEN [staging EXCEPT !.exists = FALSE, !.files = {}]
                          ELSE [staging EXCEPT !.warned = TRUE]
       ELSE UNCHANGED staging
    /\ upc' = "done"
    /\ UNCHANGED <<verifyVars, overlapVars, job_list, write_outputs, verify_jobs, fetchVars,
                   results2, results3, taken, refactored_jobs, files_changed,
                   response_data, mat_calls>>

\* the files of the repository a run is checked on
RepoNames == Paths \cup {Root \o "/README.md"}

Init ==
    /\ VerifyIdle
    /\ job_list = <<>>
    /\ write_outputs = <<>>
    /\ verify_jobs = <<>>
    /\ directory = Root
    /\ all_files \in Trees(RepoNames, MaxFiles)
    /\ file_idx = 0
    /\ analysis_results = <<>>
    /\ analyzed = <<>>
    /\ upc = "start"
    /\ staging \in {[exists |-> e, made |-> FALSE, files |-> {}, warned |-> FALSE] :
                      e \in BOOLEAN}
    /\ results2 = <<>>
    /\ results3 = <<>>
    /\ taken = 0
    /\ refactored_jobs = <<>>
    /\ files_changed = <<>>
    /\ response_data = NoneValue
    /\ mat_calls = <<>>
    /\ OverlapIdle

Next ==
    \/ CreateStaging
    \/ RunScript
    \/ FetchSkip
    \/ FetchAnalyze
    \/ FetchReturn
    \/ FetchRaised
    \/ StartStage2
    \/ ProcessFile
    \/ Stage2Output
    \/ StartStage3
    \/ VerifyAndFix
    \/ Stage3Output
    \/ CreateFork
    \/ CloneFork
    \/ ApplyChanges
    \/ CreateAndPushBranch
    \/ CreatePullRequest
    \/ Cleanup

Spec == Init /\ [][Next]_vars

(***************************************************************************)
(* Properties of a run of update.                                          *)
(***************************************************************************)
\* a worker call that failed: it raised, or it returned None (which is what
\* the Stage-1 and Stage-2 workers return for a reply that fails validation)
FailedCall(out) ==
    out.kind = "raise" \/ (out.kind = "return" /\ IsNone(out.value))

Failures1 == {k \in 1..Len(analyzed) : FailedCall(analyzed[k].out)}

Failures2 == {k \in 1..Len(results2) : FailedCall(results2[k])}

Failures3 == {k \in 1..Len(results3) : FailedCall(results3[k])}

Stage1Over == upc \notin {"start", "run_script", "fetch"} /\ analyzed # <<>>

Stage2Over == results2 # <<>> /\ upc # "stage2"

Stage3Over == results3 # <<>> /\ upc # "stage3"

OneFailureStage1 ==
    (Stage1Over /\ Cardinality(Failures1) = 1) =>
        /\ file_idx = Len(all_files)
        /\ \A k \in (1..Len(analyzed)) \ Failures1 :
              analyzed[k].out.value.add =>
                  \E n \in 1..Len(job_list) : job_list[n].path = analyzed[k].path

OneFailureStage2 ==
    (Stage2Over /\ Cardinality(Failures2) = 1) =>
        /\ \A k \in 1..Len(results2) : results2[k] # Pending
        /\ \A k \in (1..Len(results2)) \ Failures2 :
              Kept(results2[k].value) =>
                  \E n \in 1..Len(write_outputs) :
                      write_outputs[n] = results2[k].value

OneFailureStage3 ==
    (Stage3Over /\ Cardinality(Failures3) = 1) =>
        /\ taken = Len(verify_jobs)
        /\ \A k \in 1..Len(results3) :
              (results3[k].kind = "return" /\ Kept(results3[k].value)) =>
                  \E n \in 1..Len(refactored_jobs) :
                      refactored_jobs[n] = ChangeRecord(job_list, results3[k].value)

\* C11: in each of the three stages, when the worker fails for exactly one
\* artifact of the batch (it raises, or its output fails validation), the
\* batch still completes and the valid results of the other artifacts are
\* all in the output of the stage.
C11_OneFailureKeepsBatch ==
    OneFailureStage1 /\ OneFailureStage2 /\ OneFailureStage3

\* C12: a non-null result of process_file or verify_and_fix carries in
\* file_path the path of the job that produced it, and each stage has yielded
\* one output per input job when it is over, whatever order the workers
\* finished in.
C12_IdentityAndCardinality ==
    /\ \A k \in 1..Len(results2) :
          (results2[k].kind = "return" /\ ~IsNone(results2[k].value)) =>
              results2[k].value.file_path = job_list[k].path
    /\ \A k \in 1..Len(results3) :
          (results3[k].kind = "return" /\ ~IsNone(results3[k].value)) =>
              results3[k].value.file_path = verify_jobs[k].file_path
    /\ Stage2Over => \A k \in 1..Len(job_list) : results2[k] # Pending
    /\ Stage3Over => taken = Len(verify_jobs)

\* the Stage-1 records whose code_content is the given text
RecordsWith(content) ==
    {n \in 1..Len(job_list) : job_list[n].code_content = content}

\* C13: whenever update attaches Stage-1 content to a Stage-2 result (in a
\* verification job) or to a Stage-3 result (in a change record), the record
\* the content comes from has the path of that result.
C13_JoinMatchesPath ==
    /\ \A k \in 1..Len(verify_jobs) :
          verify_jobs[k].original_code # "" =>
              /\ RecordsWith(verify_jobs[k].original_code) # {}
              /\ \A n \in RecordsWith(verify_jobs[k].original_code) :
                    job_list[n].path = verify_jobs[k].file_path
    /\ \A k \in 1..Len(refactored_jobs) :
          refactored_jobs[k].old_content # "" =>
              /\ RecordsWith(refactored_jobs[k].old_content) # {}
              /\ \A n \in RecordsWith(refactored_jobs[k].old_content) :
                    NewPath(job_list[n].path) = refactored_jobs[k].path

\* both joins have attached the content of the second Stage-1 record
C13_Witness ==
    /\ Len(job_list) = 2
    /\ \E k \in 1..Len(verify_jobs) :
          /\ verify_jobs[k].file_path = job_list[2].path
          /\ verify_jobs[k].original_code = job_list[2].code_content
    /\ \E k \in 1..Len(refactored_jobs) :
          /\ refactored_jobs[k].path = NewPath(job_list[2].path)
          /\ refactored_jobs[k].old_content = job_list[2].code_content

(***************************************************************************)
(* The two joins of update on their own: SpecJoin applies the code of      *)
(* server.py:188-234 to Stage-1 records and kept Stage-2 results drawn     *)
(* independently of each other, so that a result may name a path that no   *)
(* record has.  (In a run of update every kept result carries the path of  *)
(* the record it was computed from.)                                       *)
(***************************************************************************)
\* kept Stage-2 results for any files, whatever the Stage-1 records are
JoinInputs ==
    UNION {[1..n -> {JobReport(CodeChange(p, FileContent[p]), code) :
                        p \in Paths, code \in NewCodes}] : n \in 1..MaxFiles}

InitJoin ==
    /\ VerifyIdle
    /\ job_list \in JobLists
    /\ write_outputs \in JoinInputs
    /\ verify_jobs = <<>>
    /\ directory = Root
    /\ all_files = <<>>
    /\ file_idx = 0
    /\ analysis_results = <<>>
    /\ analyzed = <<>>
    /\ upc = "stage2"
    /\ staging = [exists |-> TRUE, made |-> TRUE, files |-> {}, warned |-> FALSE]
    /\ results2 = [k \in 1..Len(job_list) |-> Returned(NoneValue)]
    /\ results3 = <<>>
    /\ taken = Len(job_list)
    /\ refactored_jobs = <<>>
    /\ files_changed = <<>>
    /\ response_data = NoneValue
    /\ mat_calls = <<>>
    /\ OverlapIdle

NextJoin ==
    \/ StartStage3
    \/ VerifyAndFix
    \/ Stage3Output

SpecJoin == InitJoin /\ [][NextJoin]_vars

Unmatched(file_path) == \A n \in 1..Len(job_list) : job_list[n].path # file_path

OncePerPath(list, key) ==
    \A k \in 1..Len(list) : \A n \in 1..Len(list) :
        list[k][key] = list[n][key] => k = n

\* C15: the artifact set only shrinks from stage to stage.  A file is a
\* Stage-2 job only if Stage 1 returned a non-null result with add = true for
\* it, a Stage-3 job only if Stage 2 returned non-empty refactored_code for
\* it, and in the change records only if Stage 3 returned non-empty
\* refactored_code for it; no stage is given the same file twice.
C15_ArtifactSetShrinks ==
    /\ \A k \in 1..Len(job_list) :
          \E n \in 1..Len(analyzed) :
              /\ analyzed[n].path = job_list[k].path
              /\ analyzed[n].out.kind = "return"
              /\ ~IsNone(analyzed[n].out.value)
              /\ analyzed[n].out.value.add
    /\ \A k \in 1..Len(verify_jobs) :
          \E n \in 1..Len(results2) :
              /\ job_list[n].path = verify_jobs[k].file_path
              /\ results2[n].kind = "return"
              /\ ~IsNone(results2[n].value)
              /\ results2[n].value.refactored_code # ""
    /\ \A k \in 1..Len(refactored_jobs) :
          \E n \in 1..Len(results3) :
              /\ NewPath(verify_jobs[n].file_path) = refactored_jobs[k].path
              /\ results3[n].kind = "return"
              /\ results3[n].value.refactored_code # ""
    /\ \A k \in 1..Len(all_files) : TimesSubmitted(all_files[k]) <= 1
    /\ OncePerPath(job_list, "path")
    /\ OncePerPath(verify_jobs, "file_path")
    /\ OncePerPath(refactored_jobs, "path")
    /\ Len(results2) \in {0, Len(job_list)}
    /\ Len(results3) \in {0, Len(verify_jobs)}

\* a finished run in which Stage 2 failed for one of two files and the other
\* one went through Stage 3 into the change records
C15_Witness ==
    /\ upc = "done"
    /\ Len(all_files) = 2
    /\ Len(job_list) = 2
    /\ Len(verify_jobs) = 1
    /\ Len(refactored_jobs) = 1
    /\ \E k \in 1..2 : results2[k] = Returned(NoneValue)

\* Stage 2 is over and no worker returned an output that update keeps
NoStage2Output ==
    /\ results2 # <<>>
    /\ upc # "stage2"
    /\ \A k \in 1..Len(results2) : ~Kept(results2[k].value)

NothingAfterStage2 ==
    /\ verify_jobs = <<>>
    /\ results3 = <<>>
    /\ refactored_jobs = <<>>
    /\ mat_calls = <<>>

Answered == upc = "done"

NumRuns == 2

Runs == 1..NumRuns

IdleRun == [pc |-> "idle", jobs |-> 0, taken |-> 0, answer |-> "none"]

NoDir == [exists |-> FALSE, creator |-> 0, cloned_by |-> 0, written_by |-> {}]

\* os.makedirs(staging_dir) by run r
NewDir(r) == [exists |-> TRUE, creator |-> r, cloned_by |-> 0, written_by |-> {}]

\* the finally block: rmtree removes the directory, or raises and it stays
AfterCleanup(d) == IF d.exists THEN {NoDir, d} ELSE {d}

\* run r leaves update with the answer, the directory being d before cleanup
Finish(r, answer, d) ==
    /\ shared_dir' \in AfterCleanup(d)
    /\ runs' = [runs EXCEPT ![r] = [@ EXCEPT !.pc = "done", !.answer = answer]]

\* the state of the single run of Spec, which SpecRuns leaves alone
singleRun == <<verifyVars, job_list, write_outputs, verify_jobs, fetchVars,
               upc, runVars>>

\* server.py:150-180: from the entry of update to the first await
RunEnter ==
    \E r \in Runs :
        /\ runs[r].pc = "idle"
        /\ \E out \in RmtreeOutcomes :
              IF shared_dir.exists /\ out = "raise"
              THEN Finish(r, "500", shared_dir)
              ELSE \E scripted \in BOOLEAN, found \in 0..MaxFiles :
                      CASE ~scripted -> Finish(r, "500", NewDir(r))
                        [] scripted /\ found = 0 ->
                              Finish(r, "nothing outdated", NewDir(r))
                        [] OTHER ->
                              /\ shared_dir' = NewDir(r)
                              /\ runs' = [runs EXCEPT ![r] =
                                    [@ EXCEPT !.pc = "stage2", !.jobs = found]]
        /\ UNCHANGED singleRun

\* server.py:180-186: an output of the Stage-2 map arrives
RunOutput2 ==
    \E r \in Runs :
        /\ runs[r].pc = "stage2"
        /\ runs[r].taken < runs[r].jobs
        /\ runs' = [runs EXCEPT ![r] = [@ EXCEPT !.taken = @ + 1]]
        /\ UNCHANGED shared_dir
        /\ UNCHANGED singleRun

\* server.py:188-213: the Stage-2 map is exhausted
RunJoin ==
    \E r \in Runs :
        /\ runs[r].pc = "stage2"
        /\ runs[r].taken = runs[r].jobs
        /\ \E kept \in 0..runs[r].jobs :
              IF kept = 0
              THEN Finish(r, "400", shared_dir)
              ELSE /\ runs' = [runs EXCEPT ![r] =
                        [@ EXCEPT !.pc = "stage3", !.jobs = kept, !.taken = 0]]
                   /\ UNCHANGED shared_dir
        /\ UNCHANGED singleRun

\* server.py:213-234: an output of the Stage-3 map arrives, or an exception
RunOutput3 ==
    \E r \in Runs :
        /\ runs[r].pc = "stage3"
        /\ runs[r].taken < runs[r].jobs
        /\ \E raised \in BOOLEAN :
              IF raised
              THEN Finish(r, "500", shared_dir)
              ELSE /\ runs' = [runs EXCEPT ![r] = [@ EXCEPT !.taken = @ + 1]]
                   /\ UNCHANGED shared_dir
        /\ UNCHANGED singleRun

\* git clone <repo_url> <staging_dir>: fails on a directory that is not
\* empty, creates the directory when there is none
CloneCanWork(d) == ~d.exists \/ d.cloned_by = 0

Cloned(r, d) ==
    [exists |-> TRUE, creator |-> IF d.exists THEN d.creator ELSE r,
     cloned_by |-> r, written_by |-> {}]

Written(r, d) == [d EXCEPT !.written_by = @ \cup {r}]

\* server.py:236-341: from the end of the Stage-3 map to the return
RunMaterialize ==
    \E r \in Runs :
        /\ runs[r].pc = "stage3"
        /\ runs[r].taken = runs[r].jobs
        /\ \/ \E answer \in {"400", "500"} : Finish(r, answer, shared_dir)
           \/ /\ CloneCanWork(shared_dir)
              /\ \/ Finish(r, "400", Cloned(r, shared_dir))
                 \/ \E answer \in {"500", "updated"} :
                       Finish(r, answer, Written(r, Cloned(r, shared_dir)))
        /\ UNCHANGED singleRun

NextRuns ==
    \/ RunEnter
    \/ RunOutput2
    \/ RunJoin
    \/ RunOutput3
    \/ RunMaterialize

InitRuns ==
    /\ VerifyIdle
    /\ job_list = <<>>
    /\ write_outputs = <<>>
    /\ verify_jobs = <<>>
    /\ directory = Root
    /\ all_files = <<>>
    /\ file_idx = 0
    /\ analysis_results = <<>>
    /\ analyzed = <<>>
    /\ upc = "idle"
    /\ RunIdle
    /\ runs = [r \in Runs |-> IdleRun]
    /\ shared_dir \in {NoDir, NewDir(0)}

SpecRuns == InitRuns /\ [][NextRuns]_vars

\* run r has created the staging directory and has not yet run its cleanup
InWindow(r) == runs[r].pc \in {"stage2", "stage3"}

\* C20: when runs of update overlap, the staging directory is owned by one run
\* at a time: from the moment a run has created it until that run's own
\* cleanup, the directory exists as that run created it, and no other run
\* has cloned into it or written files in it.
C20_StagingOwnedByOneRun ==
    \A r \in Runs :
        InWindow(r) =>
            /\ shared_dir.exists
            /\ shared_dir.creator = r
            /\ shared_dir.cloned_by \in {0, r}
            /\ shared_dir.written_by \subseteq {r}

\* ---------------------------------------------------------------------
\* The result's attempts and refactored_code against the trace of calls
\* ---------------------------------------------------------------------

\* C28: the attempts value of the returned result equals the number of
\* validator calls made in the run, whether the run accepted, used up its
\* attempts, or left the loop after an analyzer or repair failure.
C28_AttemptsCountValidatorCalls ==
    pc = "returned" => ret.attempts = NumCalls("verify_code")

\* the index of the most recent validator call
LastValidatorCall ==
    CHOOSE k \in Idx("verify_code") : \A m \in Idx("verify_code") : m <= k

\* C29: the refactored_code of every returned result is the candidate that
\* was passed to the most recent validator call, and no repair output
\* produced after that call exists.
C29_ReturnsLastValidatedCandidate ==
    pc = "returned" =>
        /\ Idx("verify_code") # {}
        /\ ret.refactored_code = calls[LastValidatorCall].args.refactored
        /\ \A i \in Idx("fix_code") :
              calls[i].out.kind = "text" => i < LastValidatorCall

\* an exhausted run returns a repaired candidate, validated in the last pass
C29_Witness ==
    /\ pc = "returned"
    /\ ret.verified = FALSE
    /\ NumCalls("fix_code") = MAX_RETRIES
    /\ ret.refactored_code # job.refactored_code
    /\ calls[Len(calls)].fn = "verify_code"
    /\ calls[Len(calls)].args.refactored = ret.refactored_code

(***************************************************************************)
(* One artifact through the three workers, with the rows each of them      *)
(* inserts: analyze_file_with_llm on the file, process_file on its record, *)
(* the join, and then the steps of verify_and_fix as above.  The table is  *)
(* up or down for the whole of one worker call, and each worker call draws *)
(* its own answer.  calls records the worker calls of Stages 1 and 2 with  *)
(* the reply the call got and the answer of the table during it.           *)
(***************************************************************************)
SinkModes == {"up", "down"}

\* fetch_updates on the one file: the worker call, the READING row, and the
\* test that keeps or drops the response
ReadArtifact ==
    /\ pc = "reading"
    /\ \E reply \in AnalyzeReplies(all_files[1]), s \in SinkModes :
        LET call == analyze_file_with_llm(reply, s = "up", s = "up")
        IN  /\ sink' = s
            /\ progress' = progress \o call.rows
            /\ calls' = Append(calls, [fn |-> "analyze_file_with_llm",
                                       args |-> all_files[1],
                                       reply |-> reply, sink |-> s,
                                       out |-> call.out])
            /\ IF call.out.kind = "raise"
               THEN pc' = "raised" /\ job_list' = job_list
               ELSE IF Dropped(call.out.value)
               THEN pc' = "dropped" /\ job_list' = job_list
               ELSE /\ pc' = "writing"
                    /\ job_list' = <<WithPath(call.out.value, all_files[1])>>
    /\ UNCHANGED <<write_outputs, verify_jobs, job, current_code, attempt,
                   result, analysis, ret, updateVars>>

\* process_file on the Stage-1 record, the WRITING row, and the filter of
\* update on its output
WriteArtifact ==
    /\ pc = "writing"
    /\ \E reply \in ProcessReplies, s \in SinkModes :
        LET call == process_file(job_list[1], reply, s = "up", s = "up")
        IN  /\ sink' = s
            /\ progress' = progress \o call.rows
            /\ calls' = Append(calls, [fn |-> "process_file",
                                       args |-> job_list[1],
                                       reply |-> reply, sink |-> s,
                                       out |-> call.out])
            /\ IF Kept(call.out.value)
               THEN pc' = "join" /\ write_outputs' = <<call.out.value>>
               ELSE pc' = "dropped" /\ write_outputs' = write_outputs
    /\ UNCHANGED <<job_list, verify_jobs, job, current_code, attempt, result,
                   analysis, ret, updateVars>>

\* the first join of update, and the entry of verify_and_fix on its job
JoinArtifact ==
    /\ pc = "join"
    /\ verify_jobs' = BuildVerifyJobs(job_list, write_outputs)
    /\ job' = verify_jobs'[1]
    /\ current_code' = job'.refactored_code
    /\ sink' \in SinkModes
    /\ pc' = "emit_verifying"
    /\ UNCHANGED <<job_list, write_outputs, attempt, result, analysis, ret,
                   calls, progress, updateVars>>

InitArtifact ==
    /\ job_list = <<>>
    /\ write_outputs = <<>>
    /\ verify_jobs = <<>>
    /\ job = NoneValue
    /\ current_code = ""
    /\ attempt = 0
    /\ result = NoneValue
    /\ analysis = NoneValue
    /\ pc = "reading"
    /\ ret = NoneValue
    /\ calls = <<>>
    /\ sink = "up"
    /\ progress = <<>>
    /\ directory = Root
    /\ all_files \in {<<f>> : f \in Paths}
    /\ file_idx = 0
    /\ analysis_results = <<>>
    /\ analyzed = <<>>
    /\ upc = "idle"
    /\ RunIdle
    /\ OverlapIdle

NextArtifact ==
    \/ ReadArtifact
    \/ WriteArtifact
    \/ JoinArtifact
    \/ EmitVerifying
    \/ VerifyCode
    \/ CheckRaises
    \/ Accept
    \/ StartFix
    \/ SkipFix
    \/ AnalyzeFailure
    \/ FixCode
    \/ ReturnExhausted

SpecArtifact == InitArtifact /\ [][NextArtifact]_vars

\* the worker call gave the value it gives when both inserts store the row
AsWhenStored(call) ==
    IF call.fn = "analyze_file_with_llm"
    THEN call.out = analyze_file_with_llm(call.reply, TRUE, TRUE).out
    ELSE call.fn = "process_file" =>
            call.out = process_file(call.args, call.reply, TRUE, TRUE).out

\* the validator call was accepting: it raised (the fallback result passes)
\* or its reply satisfies the rule
AcceptingCall(call) ==
    /\ call.fn = "verify_code"
    /\ \/ call.out.kind = "raise"
       \/ call.out.kind = "object" /\ RuleAccepts(call.out.value)

\* the result of verify_and_fix as the replies of its collaborators fix it
ResultOfCalls ==
    IF AcceptingCall(calls[Len(calls)])
    THEN VResult(job, calls[LastValidatorCall].args.refactored, TRUE,
                 NumCalls("verify_code"))
    ELSE VResult(job, calls[LastValidatorCall].args.refactored, FALSE,
                 MAX_RETRIES + 1)

\* C21: a failing progress table never changes what a worker returns: every
\* Stage-1 and Stage-2 call returns what it returns when its inserts
\* succeed, and the result of verify_and_fix is the one its collaborators'
\* replies determine, whatever the table answered.
C21_SinkNeverChangesResult ==
    /\ \A i \in 1..Len(calls) : AsWhenStored(calls[i])
    /\ pc = "returned" => ret = ResultOfCalls

\* ---------------------------------------------------------------------
\* The order of one artifact's rows
\* ---------------------------------------------------------------------
StatusTags == {"READING", "WRITING", "VERIFYING", "FIXING", "VERIFIED"}

Rows(tag) == {i \in 1..Len(progress) : progress[i].status = tag}

\* the artifact's last worker call has ended
ArtifactEnded == pc \in {"returned", "raised", "dropped"}

\* the parts of the order that do not concern FIXING: only the five tags,
\* READING before WRITING, WRITING before every VERIFYING, and VERIFIED at
\* most once, as the last row of a run that returned verified=true
OrderOfStages ==
    /\ \A i \in 1..Len(progress) : progress[i].status \in StatusTags
    /\ \A i \in Rows("READING"), j \in Rows("WRITING") : i < j
    /\ \A j \in Rows("VERIFYING") : \E i \in Rows("WRITING") : i < j
    /\ \A i \in Rows("VERIFIED") :
          /\ i = Len(progress)
          /\ pc = "returned"
          /\ ret.verified = TRUE

TakenResults ==
    {results3[k].value : k \in {m \in 1..Len(results3) :
                                  m <= taken /\ results3[m].kind = "return"}}

\* an exhausted result with code
ExhaustedWithCode(res) == res.verified = FALSE /\ res.refactored_code # ""

\* C22: every Stage-3 result that update has taken, that ended exhausted
\* (verified=false) and has non-empty code, has a change record in
\* refactored_jobs, the list the file-writing loop works on, with the
\* result's last candidate as new_content.
C22_ExhaustedArtifactKept ==
    \A res \in TakenResults :
        ExhaustedWithCode(res) =>
            \E r \in Range(refactored_jobs) :
                /\ r.path = NewPath(res.file_path)
                /\ r.new_content = res.refactored_code

\* the only accepted artifact is an exhausted one, and its file was written
C22_Witness ==
    /\ upc = "push"
    /\ \A res \in TakenResults : ExhaustedWithCode(res)
    /\ \E res \in TakenResults :
          /\ res.refactored_code \in FixOutputs
          /\ NewPath(res.file_path) \in Range(files_changed)

\* C23: every change record that update built for an accepted artifact
\* carries that artifact's verified flag, in refactored_jobs and in the
\* output field of the answer.
C23_RecordsCarryVerifiedFlag ==
    /\ \A k \in 1..Len(refactored_jobs) :
          /\ "verified" \in DOMAIN refactored_jobs[k]
          /\ \E res \in TakenResults :
                /\ refactored_jobs[k].path = NewPath(res.file_path)
                /\ refactored_jobs[k].verified = res.verified
    /\ (upc = "done" /\ "output" \in DOMAIN response_data) =>
          \A k \in 1..Len(response_data.output) :
              "verified" \in DOMAIN response_data.output[k]

\* a call of the repository materializer failed: update answers with an
\* exception after the first of these calls
MaterializerFailed ==
    /\ upc \in {"finally", "done"}
    /\ mat_calls # <<>>
    /\ "status_code" \in DOMAIN response_data

\* C24: when a call of the repository materializer fails after Stage 3, the
\* answer of the run still holds the change records computed up to then.
C24_FailureKeepsResults ==
    MaterializerFailed =>
        /\ "output" \in DOMAIN response_data
        /\ response_data.output = FirstFive(refactored_jobs)

\* run_script has returned job_list to update
Stage1Returned ==
    upc \notin {"idle", "start", "run_script", "fetch", "fetch_raised"}

\* C27: from the step at which run_script has returned job_list until update
\* ends, no step changes job_list: the path and code_content of every
\* Stage-1 record stay as Stage 1 gave them.
C27_Stage1RecordsUnchanged ==
    [][Stage1Returned => job_list' = job_list]_vars

\* Stage 3 gave a repaired candidate for a record whose code is still the
\* one Stage 1 read
C27_Witness ==
    /\ upc = "done"
    /\ "output" \in DOMAIN response_data
    /\ \E j \in Range(job_list), r \in Range(refactored_jobs) :
          /\ r.path = NewPath(j.path)
          /\ r.new_content \in FixOutputs
          /\ j.code_content = FileContent[j.path]
          /\ r.old_content = j.code_content

\* C30: the stages of a run are separated by barriers: the Stage-2 jobs
\* exist only after Stage 1 has gone through every file and returned, the
\* Stage-3 jobs exist only when every Stage-2 job has ended, and a call of
\* the materializer is made only when every Stage-3 job has ended.
C30_StageBarriers ==
    /\ results2 # <<>> => Stage1Returned /\ file_idx = Len(all_files)
    /\ results3 # <<>> =>
          \A k \in 1..Len(results2) : results2[k] # Pending
    /\ mat_calls # <<>> =>
          /\ results3 # <<>>
          /\ \A k \in 1..Len(results3) : results3[k] # Pending

\* two artifacts went through both maps and the pull request was made
C30_Witness ==
    /\ Len(results2) = 2
    /\ Len(results3) = 2
    /\ mat_calls = <<"create_fork", "clone", "load_repository",
                     "create_and_push_branch", "create_pull_request">>

(***************************************************************************)
(* The re-rooting of paths, on clones at several places.  run_script       *)
(* clones into os.getcwd() + "/repository" after os.chdir("scripts"), a    *)
(* relative change of the working directory of the container's process:    *)
(* the clone is at /root/scripts/repository for the first call of a        *)
(* container started in /root, one level deeper for the next call the same *)
(* container serves, and elsewhere for a container started elsewhere.  The *)
(* run is taken up where Stage 2 has given an output for every record.     *)
(***************************************************************************)
CloneRoots == {Root, "/root/scripts/scripts/repository",
               "/app/scripts/repository"}

\* the files of the repository, relative to the clone
RelNames == {"/a.py", "/src/b.py"}

InitReroot ==
    /\ VerifyIdle
    /\ directory \in CloneRoots
    /\ all_files \in InjectiveSeqs({directory \o rel : rel \in RelNames},
                                   MaxFiles)
    /\ file_idx = Len(all_files)
    /\ analysis_results =
          [k \in 1..Len(all_files) |->
              CodeChange(all_files[k], ContentOf(all_files[k]))]
    /\ analyzed = <<>>
    /\ job_list = analysis_results
    /\ write_outputs \in
          {[k \in 1..Len(job_list) |-> JobReport(job_list[k], code)] :
              code \in NewCodes}
    /\ verify_jobs = <<>>
    /\ upc = "stage2"
    /\ staging = [exists |-> TRUE, made |-> TRUE, files |-> {}, warned |-> FALSE]
    /\ results2 = [k \in 1..Len(job_list) |-> Returned(write_outputs[k])]
    /\ results3 = <<>>
    /\ taken = Len(job_list)
    /\ refactored_jobs = <<>>
    /\ files_changed = <<>>
    /\ response_data = NoneValue
    /\ mat_calls = <<>>
    /\ OverlapIdle

NextReroot ==
    \/ StartStage3
    \/ VerifyAndFix
    \/ Stage3Output
    \/ CreateFork
    \/ CloneFork
    \/ ApplyChanges
    \/ CreateAndPushBranch
    \/ CreatePullRequest
    \/ Cleanup

SpecReroot == InitReroot /\ [][NextReroot]_vars

\* C26: the path of every change record update built is the staging
\* directory followed by the path of its file relative to the clone,
\* wherever the clone is.
C26_PathRelativeToCloneRoot ==
    \A res \in TakenResults :
        Kept(res) =>
            \E r \in Range(refactored_jobs) :
                /\ r.path = StagingDir \o RelativeTo(directory, res.file_path)
                /\ r.new_content = res.refactored_code

\* ---------------------------------------------------------------------
\* No step of update on an empty input
\* ---------------------------------------------------------------------

\* the run made this call of the repository materializer
Called(fn) == \E k \in 1..Len(mat_calls) : mat_calls[k] = fn

\* the maps and the materializer calls were made on non-empty inputs only
NonEmptyInputs ==
    /\ (upc = "stage2" \/ results2 # <<>>) => job_list # <<>>
    /\ (upc = "stage3" \/ results3 # <<>>) =>
          /\ write_outputs # <<>>
          /\ verify_jobs # <<>>
    /\ (Called("create_fork") \/ Called("clone")) => refactored_jobs # <<>>
    /\ (Called("create_and_push_branch") \/ Called("create_pull_request")) =>
          /\ files_changed # <<>>
          /\ Range(files_changed) \subseteq
                {r.path : r \in Range(refactored_jobs)}

\* the step taken when run_script returned an empty job_list is the return
\* of the success answer with files_updated = 0
EmptyJobListReturns ==
    (upc = "job_list" /\ job_list = <<>>) =>
        /\ upc' = "finally"
        /\ response_data' = NothingOutdated
        /\ response_data'.status = "success"
        /\ response_data'.files_updated = 0
        /\ results2' = <<>>

\* C31: update never goes on with an empty input: the process_file map runs
\* only on a non-empty job_list, and a run whose Stage 1 gave nothing answers
\* success with files_updated = 0; the verify_and_fix map runs only on a
\* non-empty write_outputs; create_fork and the clone are called only with a
\* change record in refactored_jobs; create_and_push_branch and
\* create_pull_request are called only with a written file in files_changed.
C31_NoStepOnEmptyInput ==
    /\ []NonEmptyInputs
    /\ [][EmptyJobListReturns]_vars

\* a run went through the three stages and the clone on non-empty inputs,
\* wrote no file, and ended without the push and the pull request
C31_Witness ==
    /\ upc = "done"
    /\ job_list # <<>>
    /\ write_outputs # <<>>
    /\ refactored_jobs # <<>>
    /\ Called("create_fork") /\ Called("clone") /\ Called("load_repository")
    /\ files_changed = <<>>
    /\ ~Called("create_and_push_branch")
    /\ ~Called("create_pull_request")
    /\ response_data = HTTPException(400, "No files were successfully updated")
====
